---- MODULE Spec2Model ----
(***************************************************************************)
(* Model of the chunked multipart upload of cf-r2: multipartUpload of the  *)
(* interactive tool (src/unnamed/part_000) and of the usage example        *)
(* (src/src/file-management.ts), driving the store wrappers of             *)
(* src/src/upload.ts.  One behaviour is one invocation of multipartUpload; *)
(* every await is a step boundary, and the store answers each request      *)
(* nondeterministically (a response or a thrown error).                    *)
(*                                                                         *)
(* Sizes are JavaScript numbers in the source.  The model computes         *)
(* i < totalSize / chunkSize, Math.floor(p / (totalSize / chunkSize) * 50) *)
(* and (p / (totalSize / chunkSize) * 100).toFixed(0) in integer           *)
(* arithmetic; for the sizes drawn in Init the integer results are the     *)
(* ones the double computation gives.                                      *)
(***************************************************************************)
EXTENDS Integers, Sequences, FiniteSets, TLC

VARIABLES impl, totalSize, chunkSize, pc, UploadId, i, parts, calls,
          progress, error, report,
          result,             \* const result = await completeMultipartUpload(...)
          retval,             \* the value the running function returned
          fn,                 \* the function that was invoked
          defaultR2Client,    \* the module variable of config.ts
          created,            \* number of S3Client instances created so far
          invoked,            \* history: the library calls made, with outcome
          storeObjects,       \* store: the keys of the objects in the bucket
          storeUploads,       \* store: the multipart uploads in progress
          keys,               \* deleteBucketAndCleanup: keys
          uploadsResponse,    \* cleanupMultipartUploads: uploadsResponse.Uploads
          results,            \* cleanupMultipartUploads: results
          allObjects,         \* listAllObjects: allObjects
          continuationToken,  \* listAllObjects: continuationToken
          bucket,             \* parameter bucket of the running function
          fileName,           \* the object key the running function works on
          currentBucket,      \* main: let currentBucket
          menuResult,         \* main: the value the last menu returned
          files,              \* FileMenu: const files = await listFiles(...)
          storeBuckets        \* store: the keys of the objects of each bucket

\* The client module and the caller of the running function.
clientVars == <<retval, fn, defaultR2Client, created, invoked>>

\* The store's contents and the locals of the bucket and listing functions.
bucketVars == <<storeObjects, storeUploads, keys, uploadsResponse, results,
                allObjects, continuationToken>>

\* The target of the running function: its bucket and its object key.
targetVars == <<bucket, fileName>>

\* The interactive tool's main loop and the buckets it browses.
toolVars == <<currentBucket, menuResult, files, storeBuckets>>

\* The state outside one multipartUpload invocation.
libVars == <<clientVars, bucketVars, targetVars, toolVars>>

vars == <<impl, totalSize, chunkSize, pc, UploadId, i, parts, calls,
          progress, error, report, result, libVars>>

(* ------------------------------ bounds --------------------------------- *)
MaxTotal == 6
MaxChunk == 3

\* Larger sizes at which the progress bar still fits although the last part
\* is short (99 = 50 + 49), next to an exact multiple.
LargeInputs == {<<99, 50>>, <<100, 50>>}

\* The pairs <<totalSize, chunkSize>> an invocation is started with.
Inputs == ((0..MaxTotal) \X (1..MaxChunk)) \cup LargeInputs

Impls == {"cli", "example"}
UploadIds == {"u1", "u2"}
ETags == {"e1", "e2"}
NoId == "undefined"
NoError == "none"
Undefined == "undefined"
VersionIds == {"v1", "v2"}
Configs == {"cfgA"}
Buckets == {"b1", "b2"}

\* Object keys.  A key may spell one of the fixed choices of FileMenu.
FileNames == {"k1", "back"}

\* let currentBucket: string | null = null
NoBucket == "null"

\* let continuationToken: string | undefined = undefined
NoToken == Undefined

\* let defaultR2Client: S3Client | null = null
Null == [id |-> 0, cfg |-> "none"]

\* createR2Client(config): a new S3Client instance, the n-th one created.
CreateR2Client(n, cfg) == [id |-> n, cfg |-> cfg]

\* getR2Client(): throws when defaultR2Client is null (ClientMissing),
\* otherwise returns defaultR2Client.
ClientMissing_Never == FALSE
ClientMissing == defaultR2Client = Null
GetR2Client_Fresh == CreateR2Client(created + 1, "cfgA")
GetR2Client == defaultR2Client

(* ------------------------- pure computations --------------------------- *)
\* Width of the progress bar: "#".repeat(... * 50) + " ".repeat(50 - ...).
BarWidth == 50

\* Loop condition `i < totalSize / chunkSize` (chunkSize > 0).
LoopCond_Inclusive(k, T, C) == k * C <= T
LoopCond(k, T, C) == k * C < T

\* partNumber = i + 1
PartNumberOf_ZeroBased(k) == k
PartNumberOf(k) == k + 1

\* First argument of fileBuff.slice: i * chunkSize
SliceStart_FromPartNumber(k, C) == (k + 1) * C
SliceStart(k, C) == k * C

\* Second argument of fileBuff.slice:
\* (i + 1) * chunkSize > totalSize ? totalSize : (i + 1) * chunkSize
SliceEnd(k, T, C) == IF (k + 1) * C > T THEN T ELSE (k + 1) * C

Min(a, b) == IF a < b THEN a ELSE b
Max(a, b) == IF a > b THEN a ELSE b

\* Uint8Array.prototype.slice(start, end) on an array of length len, for
\* start, end >= 0: both ends are clamped to len, and an inverted range is
\* empty.  The result is the half-open byte range [lo, hi).
TypedArraySlice(len, start, end) ==
    LET from == Min(start, len)
        to   == Min(end, len)
    IN  [lo |-> from, hi |-> Max(from, to)]

\* The chunk of loop index k: fileBuff.slice(SliceStart, SliceEnd).
Chunk(k, T, C) == TypedArraySlice(T, SliceStart(k, C), SliceEnd(k, T, C))

\* Math.floor(partNumber / (totalSize / chunkSize) * 50)
BarLen(p, T, C) == (p * C * BarWidth) \div T

\* (partNumber / (totalSize / chunkSize) * 100).toFixed(0): nearest integer,
\* halves rounded up.
Percent(p, T, C) == (2 * p * C * 100 + T) \div (2 * T)

\* String.prototype.repeat(count) throws a RangeError when count < 0 or
\* count is Infinity; the count of the padding is 50 - BarLen, and the bar is
\* infinite when totalSize / chunkSize is 0.
RenderThrows(p, T, C) == T = 0 \/ BarWidth - BarLen(p, T, C) < 0

\* The progress text written after part p: the tool shows bar and percentage,
\* the example only the bar.
Render(m, p, T, C) ==
    IF m = "cli"
    THEN [part |-> p, bar |-> BarLen(p, T, C), pct |-> Percent(p, T, C)]
    ELSE [part |-> p, bar |-> BarLen(p, T, C)]

\* parts.push({ PartNumber: partNumber, ETag: ETag! })
PushPart_Unshift(ps, p, etag) == <<[PartNumber |-> p, ETag |-> etag]>> \o ps
PushPart(ps, p, etag) == Append(ps, [PartNumber |-> p, ETag |-> etag])

\* if (!UploadId)
MissingUploadId_Never(id) == FALSE
MissingUploadId(id) == id = NoId

(* --------------------------- store requests ---------------------------- *)
\* One request sent through client.send, with the store's answer once it has
\* arrived: result is "pending", "ok" or "error"; ret is the UploadId or the
\* ETag of the response.  Bucket and Key are the bucket and the object key
\* the calling function passes (Key matters for the commands on one object).
Command(op, id, p, rng, ps, ks, tok) ==
    [op |-> op, Bucket |-> bucket, Key |-> fileName, UploadId |-> id,
     PartNumber |-> p, lo |-> rng.lo, hi |-> rng.hi, Parts |-> ps,
     Keys |-> ks, ContinuationToken |-> tok,
     result |-> "pending", ret |-> "", client |-> GetR2Client]

\* The requests of the upload: no key list, no continuation token.
Request(op, id, p, rng, ps) == Command(op, id, p, rng, ps, <<>>, Undefined)

NoRange == [lo |-> 0, hi |-> 0]

Answered(cs, res, ret) ==
    [cs EXCEPT ![Len(cs)].result = res, ![Len(cs)].ret = ret]

\* No menu of the interactive tool is running.
NoResult == [from |-> "none", type |-> "none", bucket |-> NoBucket,
             file |-> ""]
NoFiles == [defined |-> FALSE, names |-> <<>>]
ToolIdle ==
    /\ currentBucket = NoBucket
    /\ menuResult = NoResult
    /\ files = NoFiles
    /\ storeBuckets = [b \in Buckets |-> <<>>]

\* The bucket and listing functions are not running: their state is empty.
BucketIdle ==
    /\ storeObjects = <<>>
    /\ storeUploads = <<>>
    /\ keys = <<>>
    /\ uploadsResponse = <<>>
    /\ results = <<>>
    /\ allObjects = <<>>
    /\ continuationToken = NoToken

(* ------------------------------- Init ---------------------------------- *)
\* The state when the try block is entered: the file has been read, totalSize
\* and chunkSize (the option or the default, always positive) are fixed.
Init ==
    /\ impl \in Impls
    /\ \E inp \in Inputs : totalSize = inp[1] /\ chunkSize = inp[2]
    /\ pc = "start"
    /\ UploadId = NoId
    /\ i = 0
    /\ parts = <<>>
    /\ calls = <<>>
    /\ progress = <<>>
    /\ error = NoError
    /\ report = "none"
    /\ result = Undefined
    /\ retval = Undefined
    /\ fn = "multipartUpload"
    /\ \E c \in {Null, CreateR2Client(1, "cfgA")} :
          defaultR2Client = c /\ created = c.id
    /\ invoked = <<>>
    /\ BucketIdle
    /\ bucket \in Buckets
    /\ fileName \in FileNames
    /\ ToolIdle

(* ------------------------------ actions -------------------------------- *)
\* 1. createMultipartUpload(bucket, fileName, ...) is sent.
CallCreate ==
    /\ pc = "start"
    /\ ~ClientMissing
    /\ calls' = Append(calls, Request("create", NoId, 0, NoRange, <<>>))
    /\ pc' = "awaitCreate"
    /\ UNCHANGED <<libVars, result, impl, totalSize, chunkSize, UploadId, i, parts, progress,
                   error, report>>

\* createMultipartUpload calls getR2Client() before any client, which throws
\* when no client was initialised: nothing is sent.
CreateUninitialized ==
    /\ pc = "start"
    /\ ClientMissing
    /\ pc' = "catch"
    /\ error' = "NotInitialized"
    /\ UNCHANGED <<libVars, result, impl, totalSize, chunkSize, UploadId, i,
                   parts, calls, progress, report>>

\* The store answers; without an UploadId the code throws Error('获取上传ID失败').
\* Otherwise parts = [], the file bytes are taken and the loop starts at i = 0.
CreateReturns(id) ==
    /\ pc = "awaitCreate"
    /\ calls' = Answered(calls, "ok", id)
    /\ UploadId' = id
    /\ IF MissingUploadId(id)
       THEN pc' = "catch" /\ error' = "NoUploadId"
       ELSE pc' = "loop" /\ error' = error
    /\ i' = 0
    /\ parts' = <<>>
    /\ UNCHANGED <<libVars, result, impl, totalSize, chunkSize, progress, report>>

\* createMultipartUpload throws (the request failed).
CreateThrows ==
    /\ pc = "awaitCreate"
    /\ calls' = Answered(calls, "error", "")
    /\ pc' = "catch"
    /\ error' = "StoreError"
    /\ UNCHANGED <<libVars, result, impl, totalSize, chunkSize, UploadId, i, parts, progress,
                   report>>

\* 2. Loop test true: the chunk is sliced and uploadPart is sent; the loop
\* waits for the answer (await).
CallUploadPart_NoAwait ==
    /\ pc = "loop"
    /\ LoopCond(i, totalSize, chunkSize)
    /\ calls' = Append(calls, Request("uploadPart", UploadId, PartNumberOf(i),
                                      Chunk(i, totalSize, chunkSize), <<>>))
    /\ i' = i + 1
    /\ UNCHANGED <<libVars, result, impl, totalSize, chunkSize, UploadId, pc,
                   parts, progress, error, report>>
CallUploadPart ==
    /\ pc = "loop"
    /\ ~ClientMissing
    /\ LoopCond(i, totalSize, chunkSize)
    /\ calls' = Append(calls, Request("uploadPart", UploadId, PartNumberOf(i),
                                      Chunk(i, totalSize, chunkSize), <<>>))
    /\ pc' = "awaitPart"
    /\ UNCHANGED <<libVars, result, impl, totalSize, chunkSize, UploadId, i, parts, progress,
                   error, report>>

\* uploadPart answers with an ETag: the part is pushed, then the progress
\* text is built; a RangeError of repeat() leaves the loop for the catch
\* block before the text is assigned.  Otherwise i++.
PartReturns(etag) ==
    /\ pc = "awaitPart"
    /\ calls' = Answered(calls, "ok", etag)
    /\ parts' = PushPart(parts, PartNumberOf(i), etag)
    /\ IF RenderThrows(PartNumberOf(i), totalSize, chunkSize)
       THEN /\ pc' = "catch"
            /\ error' = "RangeError"
            /\ UNCHANGED <<progress, i>>
       ELSE /\ progress' = Append(progress,
                    Render(impl, PartNumberOf(i), totalSize, chunkSize))
            /\ i' = i + 1
            /\ pc' = "loop"
            /\ error' = error
    /\ UNCHANGED <<libVars, result, impl, totalSize, chunkSize, UploadId, report>>

\* uploadPart throws: the exception leaves the loop for the catch block.
PartThrows_Continue ==
    /\ pc = "awaitPart"
    /\ calls' = Answered(calls, "error", "")
    /\ pc' = "loop"
    /\ i' = i + 1
    /\ UNCHANGED <<libVars, result, impl, totalSize, chunkSize, UploadId, parts, progress,
                   error, report>>
PartThrows ==
    /\ pc = "awaitPart"
    /\ calls' = Answered(calls, "error", "")
    /\ pc' = "catch"
    /\ error' = "StoreError"
    /\ UNCHANGED <<libVars, result, impl, totalSize, chunkSize, UploadId, i, parts, progress,
                   report>>

\* 3. Loop test false: completeMultipartUpload is sent with parts.
CallComplete_AnyUploadId ==
    /\ pc = "loop"
    /\ ~LoopCond(i, totalSize, chunkSize)
    /\ \E id \in UploadIds :
          calls' = Append(calls, Request("complete", id, 0, NoRange, parts))
    /\ pc' = "awaitComplete"
    /\ UNCHANGED <<libVars, result, impl, totalSize, chunkSize, UploadId, i,
                   parts, progress, error, report>>
CallComplete ==
    /\ pc = "loop"
    /\ ~ClientMissing
    /\ ~LoopCond(i, totalSize, chunkSize)
    /\ calls' = Append(calls, Request("complete", UploadId, 0, NoRange, parts))
    /\ pc' = "awaitComplete"
    /\ UNCHANGED <<libVars, result, impl, totalSize, chunkSize, UploadId, i, parts, progress,
                   error, report>>

\* completeMultipartUpload answers with the object's VersionId, kept in the
\* local result: success is reported (loading.succeed in the tool,
\* console.log of result.VersionId in the example); the tool then waits for a
\* key.  Neither function has a return statement.
CompleteReturns_ReturnsVersion(v) ==
    /\ pc = "awaitComplete"
    /\ calls' = Answered(calls, "ok", v)
    /\ result' = v
    /\ retval' = v
    /\ report' = "succeed"
    /\ pc' = IF impl = "cli" THEN "prompt" ELSE "returned"
    /\ UNCHANGED <<fn, defaultR2Client, created, invoked, bucketVars,
                   targetVars, toolVars, impl,
                   totalSize, chunkSize, UploadId, i, parts, progress, error>>
CompleteReturns(v) ==
    /\ pc = "awaitComplete"
    /\ calls' = Answered(calls, "ok", v)
    /\ result' = v
    /\ report' = "succeed"
    /\ pc' = IF impl = "cli" THEN "prompt" ELSE "returned"
    /\ UNCHANGED <<libVars, impl, totalSize, chunkSize, UploadId, i, parts,
                   progress, error>>

CompleteThrows ==
    /\ pc = "awaitComplete"
    /\ calls' = Answered(calls, "error", "")
    /\ pc' = "catch"
    /\ error' = "StoreError"
    /\ UNCHANGED <<libVars, result, impl, totalSize, chunkSize, UploadId, i, parts, progress,
                   report>>

\* catch (error): the failure is reported (loading.fail in the tool,
\* console.error in the example) and the exception ends here; the tool then
\* waits for a key.
Catch_Abort ==
    /\ pc = "catch"
    /\ report' = "fail"
    /\ calls' = Append(calls, Request("abort", UploadId, 0, NoRange, <<>>))
    /\ pc' = IF impl = "cli" THEN "prompt" ELSE "returned"
    /\ UNCHANGED <<libVars, result, impl, totalSize, chunkSize, UploadId, i, parts, progress,
                   error>>
Catch_Rethrow ==
    /\ pc = "catch"
    /\ report' = "fail"
    /\ pc' = "rejected"
    /\ UNCHANGED <<libVars, result, impl, totalSize, chunkSize, UploadId, i, parts, calls,
                   progress, error>>
Catch ==
    /\ pc = "catch"
    /\ report' = "fail"
    /\ pc' = IF impl = "cli" THEN "prompt" ELSE "returned"
    /\ UNCHANGED <<libVars, result, impl, totalSize, chunkSize, UploadId, i, parts, calls,
                   progress, error>>

\* await input('按任意键继续...'): the operator presses enter and
\* multipartUpload returns.
PromptEnter ==
    /\ pc = "prompt"
    /\ pc' = "returned"
    /\ UNCHANGED <<libVars, result, impl, totalSize, chunkSize, UploadId, i, parts, calls,
                   progress, error, report>>

\* The operator interrupts the prompt (Ctrl-C): input() rejects with an
\* ExitPromptError, which leaves multipartUpload.
PromptInterrupt ==
    /\ pc = "prompt"
    /\ pc' = "rejected"
    /\ error' = "ExitPromptError"
    /\ UNCHANGED <<libVars, result, impl, totalSize, chunkSize, UploadId, i, parts, calls,
                   progress, report>>

Next ==
    \/ CallCreate
    \/ CreateUninitialized
    \/ \E id \in UploadIds \cup {NoId} : CreateReturns(id)
    \/ CreateThrows
    \/ CallUploadPart
    \/ \E etag \in ETags : PartReturns(etag)
    \/ PartThrows
    \/ CallComplete
    \/ \E v \in VersionIds : CompleteReturns(v)
    \/ CompleteThrows
    \/ Catch
    \/ PromptEnter
    \/ PromptInterrupt

Spec == Init /\ [][Next]_vars

(* ------------------------------ uploadFile ----------------------------- *)
\* Size units per MiB in the uploadFile model: sizes there are counted in
\* units of 1 MiB / MiB, which keeps "one unit above 300 MiB" expressible.
MiB == 2

\* if (file.size > 300 * 1024 * 1024)
Threshold == 300 * MiB
UseMultipart_AtThreshold(size) == size >= Threshold
UseMultipart(size) == size > Threshold

\* chunkSize: 50 * 1024 * 1024
UploadFileChunk == 50 * MiB

\* File sizes around the threshold; the last one is a whole number of chunks.
UploadFileSizes ==
    {0, 1, Threshold - 1, Threshold, Threshold + 1, Threshold + UploadFileChunk}

\* The state when uploadFile has read the file.
InitUploadFile ==
    /\ impl = "cli"
    /\ totalSize \in UploadFileSizes
    /\ chunkSize = 0
    /\ pc = "uploadFile"
    /\ UploadId = NoId
    /\ i = 0
    /\ parts = <<>>
    /\ calls = <<>>
    /\ progress = <<>>
    /\ error = NoError
    /\ report = "none"
    /\ result = Undefined
    /\ retval = Undefined
    /\ fn = "uploadFile"
    /\ \E c \in {Null, CreateR2Client(1, "cfgA")} :
          defaultR2Client = c /\ created = c.id
    /\ invoked = <<>>
    /\ BucketIdle
    /\ bucket = "b1"
    /\ fileName = "k1"
    /\ ToolIdle

\* The file is larger than 300 MiB: multipartUpload is invoked with
\* chunkSize 50 MiB.
UploadFileMultipart ==
    /\ pc = "uploadFile"
    /\ UseMultipart(totalSize)
    /\ chunkSize' = UploadFileChunk
    /\ pc' = "start"
    /\ UNCHANGED <<libVars, result, impl, totalSize, UploadId, i, parts, calls,
                   progress, error, report>>

\* Otherwise the whole content is sent with putObject.
UploadFilePut ==
    /\ pc = "uploadFile"
    /\ ~UseMultipart(totalSize)
    /\ ~ClientMissing
    /\ calls' = Append(calls, Request("putObject", NoId, 0,
                                      [lo |-> 0, hi |-> totalSize], <<>>))
    /\ pc' = "awaitPut"
    /\ UNCHANGED <<libVars, result, impl, totalSize, chunkSize, UploadId, i,
                   parts, progress, error, report>>

\* putObject calls getR2Client(), which throws without a client.
UploadFilePutUninitialized ==
    /\ pc = "uploadFile"
    /\ ~UseMultipart(totalSize)
    /\ ClientMissing
    /\ pc' = "fileCatch"
    /\ error' = "NotInitialized"
    /\ UNCHANGED <<libVars, result, impl, totalSize, chunkSize, UploadId, i,
                   parts, calls, progress, report>>

\* putObject answers: loading.succeed, then the prompt inside the try block.
PutReturns ==
    /\ pc = "awaitPut"
    /\ calls' = Answered(calls, "ok", "")
    /\ report' = "succeed"
    /\ pc' = "filePromptTry"
    /\ UNCHANGED <<libVars, result, impl, totalSize, chunkSize, UploadId, i,
                   parts, progress, error>>

PutThrows ==
    /\ pc = "awaitPut"
    /\ calls' = Answered(calls, "error", "")
    /\ pc' = "fileCatch"
    /\ error' = "StoreError"
    /\ UNCHANGED <<libVars, result, impl, totalSize, chunkSize, UploadId, i,
                   parts, progress, report>>

\* multipartUpload returned: uploadFile returns.
MultipartReturned ==
    /\ fn = "uploadFile"
    /\ pc = "returned"
    /\ pc' = "fileReturned"
    /\ UNCHANGED <<libVars, result, impl, totalSize, chunkSize, UploadId, i,
                   parts, calls, progress, error, report>>

\* multipartUpload rejected (its prompt was interrupted): the rejection is
\* caught by uploadFile.
MultipartRejected ==
    /\ fn = "uploadFile"
    /\ pc = "rejected"
    /\ pc' = "fileCatch"
    /\ UNCHANGED <<libVars, result, impl, totalSize, chunkSize, UploadId, i,
                   parts, calls, progress, error, report>>

\* The prompt after a successful putObject is inside the try block.
FilePromptTryEnter ==
    /\ pc = "filePromptTry"
    /\ pc' = "fileReturned"
    /\ UNCHANGED <<libVars, result, impl, totalSize, chunkSize, UploadId, i,
                   parts, calls, progress, error, report>>

FilePromptTryInterrupt ==
    /\ pc = "filePromptTry"
    /\ pc' = "fileCatch"
    /\ error' = "ExitPromptError"
    /\ UNCHANGED <<libVars, result, impl, totalSize, chunkSize, UploadId, i,
                   parts, calls, progress, report>>

\* catch (error) of uploadFile: loading.fail, then a prompt.
FileCatch ==
    /\ pc = "fileCatch"
    /\ report' = "fail"
    /\ pc' = "filePrompt"
    /\ UNCHANGED <<libVars, result, impl, totalSize, chunkSize, UploadId, i,
                   parts, calls, progress, error>>

FilePromptEnter ==
    /\ pc = "filePrompt"
    /\ pc' = "fileReturned"
    /\ UNCHANGED <<libVars, result, impl, totalSize, chunkSize, UploadId, i,
                   parts, calls, progress, error, report>>

FilePromptInterrupt ==
    /\ pc = "filePrompt"
    /\ pc' = "fileRejected"
    /\ error' = "ExitPromptError"
    /\ UNCHANGED <<libVars, result, impl, totalSize, chunkSize, UploadId, i,
                   parts, calls, progress, report>>

NextUploadFile ==
    \/ UploadFileMultipart
    \/ UploadFilePut
    \/ UploadFilePutUninitialized
    \/ PutReturns
    \/ PutThrows
    \/ MultipartReturned
    \/ MultipartRejected
    \/ FilePromptTryEnter
    \/ FilePromptTryInterrupt
    \/ FileCatch
    \/ FilePromptEnter
    \/ FilePromptInterrupt
    \/ Next

SpecUploadFile == InitUploadFile /\ [][NextUploadFile]_vars

(* --------------------- client module and wrappers ---------------------- *)
MaxInits == 2
MaxInvocations == 2

\* The locals of multipartUpload, untouched by the library functions below.
uploadVars == <<impl, totalSize, chunkSize, UploadId, i, parts, progress,
                report, result>>

UploadIdle ==
    /\ impl = "cli"
    /\ totalSize = 0
    /\ chunkSize = 0
    /\ UploadId = NoId
    /\ i = 0
    /\ parts = <<>>
    /\ progress = <<>>
    /\ report = "none"
    /\ result = Undefined

\* Errors are objects with a name and, from the store, $metadata.httpStatusCode
\* (0: no $metadata).
NoErr == [name |-> "none", status |-> 0]
OkAnswer == [name |-> "ok", status |-> 200]

\* new Error('R2 client not initialized. Call initR2Client() first.')
NotInitialized == [name |-> "NotInitialized", status |-> 0]

\* The errors client.send can reject with.
StoreErrors == [name : {"NoSuchBucket", "AccessDenied"}, status : {404, 403, 0}]

\* Wrappers that build a command and return await client.send(command).
WrapperOps == {"putObject", "uploadPart", "listBuckets"}

\* One library call in the history: inits is the number of initR2Client
\* calls made before it, client the client it obtained, answer the store's
\* answer, and outcome / value / thrown how it ended.
Invocation(op, client, outcome, thrown) ==
    [op |-> op, inits |-> created, client |-> client, outcome |-> outcome,
     value |-> Undefined, answer |-> NoErr, thrown |-> thrown]

Ended(log, answer, outcome, value, thrown) ==
    [log EXCEPT ![Len(log)].answer = answer, ![Len(log)].outcome = outcome,
                ![Len(log)].value = value, ![Len(log)].thrown = thrown]

\* headBucket: error.name === 'NoSuchBucket' ||
\* error.$metadata?.httpStatusCode === 404
IsNotFound_AnyError(err) == TRUE
IsNotFound(err) == err.name = "NoSuchBucket" \/ err.status = 404

InitClient ==
    /\ UploadIdle
    /\ BucketIdle
    /\ bucket = "b1"
    /\ fileName = "k1"
    /\ ToolIdle
    /\ pc = "idle"
    /\ calls = <<>>
    /\ error = NoErr
    /\ retval = Undefined
    /\ fn = "idle"
    /\ defaultR2Client = Null
    /\ created = 0
    /\ invoked = <<>>

\* initR2Client(config): defaultR2Client = createR2Client(config)
InitR2Client(cfg) ==
    /\ pc = "idle"
    /\ created < MaxInits
    /\ defaultR2Client' = CreateR2Client(created + 1, cfg)
    /\ created' = created + 1
    /\ UNCHANGED <<uploadVars, targetVars, toolVars, bucketVars, pc, calls, error, retval, fn,
                   invoked>>

\* A direct getR2Client() call.
CallGetR2Client ==
    /\ pc = "idle"
    /\ Len(invoked) < MaxInvocations
    /\ IF ClientMissing
       THEN /\ invoked' = Append(invoked, Invocation("getR2Client", Null,
                                                    "threw", NotInitialized))
            /\ error' = NotInitialized
       ELSE /\ invoked' = Append(invoked, Invocation("getR2Client",
                                     GetR2Client, "returned", NoErr))
            /\ error' = error
    /\ UNCHANGED <<uploadVars, targetVars, toolVars, bucketVars, pc, calls, retval, fn,
                   defaultR2Client, created>>

\* A wrapper (or headBucket) is called: getR2Client() first, which may throw;
\* then the command is sent through the client it returned.
CallWrapper(op) ==
    /\ pc = "idle"
    /\ Len(invoked) < MaxInvocations
    /\ IF ClientMissing
       THEN /\ invoked' = Append(invoked,
                                 Invocation(op, Null, "threw", NotInitialized))
            /\ error' = NotInitialized
            /\ UNCHANGED <<calls, pc, fn>>
       ELSE /\ calls' = Append(calls, Request(op, NoId, 0, NoRange, <<>>))
            /\ invoked' = Append(invoked,
                                 Invocation(op, GetR2Client, "pending", NoErr))
            /\ pc' = "awaitSend"
            /\ fn' = op
            /\ error' = error
    /\ UNCHANGED <<uploadVars, targetVars, toolVars, bucketVars, retval, defaultR2Client, created>>

\* client.send resolves: the wrapper returns the response; headBucket
\* returns true.
SendReturns ==
    /\ pc = "awaitSend"
    /\ calls' = Answered(calls, "ok", "")
    /\ retval' = IF fn = "headBucket" THEN "true" ELSE "response"
    /\ invoked' = Ended(invoked, OkAnswer, "returned", retval', NoErr)
    /\ pc' = "idle"
    /\ fn' = "idle"
    /\ UNCHANGED <<uploadVars, targetVars, toolVars, bucketVars, error, defaultR2Client, created>>

\* client.send rejects with err: a wrapper lets it through; headBucket
\* returns false for a missing bucket and rethrows anything else.
SendThrows(err) ==
    /\ pc = "awaitSend"
    /\ calls' = Answered(calls, "error", "")
    /\ IF fn = "headBucket" /\ IsNotFound(err)
       THEN /\ retval' = "false"
            /\ invoked' = Ended(invoked, err, "returned", "false", NoErr)
            /\ error' = error
       ELSE /\ retval' = retval
            /\ invoked' = Ended(invoked, err, "threw", Undefined, err)
            /\ error' = err
    /\ pc' = "idle"
    /\ fn' = "idle"
    /\ UNCHANGED <<uploadVars, targetVars, toolVars, bucketVars, defaultR2Client, created>>

NextClient ==
    \/ \E cfg \in Configs : InitR2Client(cfg)
    \/ CallGetR2Client
    \/ \E op \in WrapperOps \cup {"headBucket"} : CallWrapper(op)
    \/ SendReturns
    \/ \E err \in StoreErrors : SendThrows(err)

SpecClient == InitClient /\ [][NextClient]_vars

(* ------------------- bucket cleanup and listing ------------------------ *)
\* Numbers of objects and of multipart uploads in the bucket.
MaxObjects == 5
MaxUploads == 4

\* The largest page the store returns for one listing request (S3: 1000
\* keys or uploads when the request names no limit, as here).
PageSize == 2

\* deleteBucketAndCleanup: const batchSize = 1000
batchSize == 1000

\* The locals of multipartUpload other than i, and the client module.
uploadLocals == <<impl, totalSize, chunkSize, UploadId, parts, progress,
                  report, result>>
clientState == <<fn, defaultR2Client, created, invoked>>

\* Opaque continuation tokens: the store's token for "continue after the
\* first k entries" is Tokens[k].
Tokens == <<"t1", "t2", "t3", "t4", "t5", "t6", "t7", "t8">>
OffsetOf(tok) ==
    IF tok = NoToken THEN 0 ELSE CHOOSE k \in 1..Len(Tokens) : Tokens[k] = tok

\* The store's answer to a listing request that continues at tok: at most
\* PageSize entries, and a token for the next page when entries remain.
ListPage(all, tok) ==
    LET from == OffsetOf(tok)
        to   == Min(from + PageSize, Len(all))
    IN  [Contents |-> SubSeq(all, from + 1, to),
         Next |-> IF to < Len(all) THEN Tokens[to] ELSE NoToken]

\* The entries of seq that are not in the list gone.
Without(seq, gone) ==
    LET Kept(x) == \A k \in 1..Len(gone) : gone[k] # x
    IN  SelectSeq(seq, Kept)

\* keys.slice(i, i + batchSize)
Batch(ks, from) == SubSeq(ks, from + 1, Min(from + batchSize, Len(ks)))

\* listAllObjects: while (continuationToken)
HasToken_Never(tok) == FALSE
HasToken(tok) == tok # NoToken

BucketFns == {"deleteBucketAndCleanup", "cleanupMultipartUploads",
              "listAllObjects"}

\* One of the three functions is called on a bucket with some objects or
\* some multipart uploads in progress.
InitBucket ==
    /\ UploadIdle
    /\ bucket = "b1"
    /\ fileName = "k1"
    /\ ToolIdle
    /\ pc = "begin"
    /\ calls = <<>>
    /\ error = NoError
    /\ retval = Undefined
    /\ fn \in BucketFns
    /\ \E c \in {Null, CreateR2Client(1, "cfgA")} :
          defaultR2Client = c /\ created = c.id
    /\ invoked = <<>>
    /\ \E n \in 0..MaxObjects :
          storeObjects = [k \in 1..n |-> k]
    /\ \E n \in 0..MaxUploads :
          storeUploads = [k \in 1..n |-> [Key |-> k, UploadId |-> Tokens[k]]]
    /\ keys = <<>>
    /\ uploadsResponse = <<>>
    /\ results = <<>>
    /\ allObjects = <<>>
    /\ continuationToken = NoToken

\* The first wrapper of the function calls getR2Client(), which throws
\* without a client; none of the three functions catches.
BucketFnUninitialized ==
    /\ pc = "begin"
    /\ ClientMissing
    /\ pc' = "rejected"
    /\ error' = "NotInitialized"
    /\ UNCHANGED <<uploadLocals, targetVars, toolVars, clientState, bucketVars, i, calls, retval>>

\* A request of one of the three functions is rejected by the store: the
\* rejection leaves the function.
BucketSendThrows ==
    /\ pc \in {"awaitList", "awaitDeleteObjects", "awaitDeleteBucket",
               "awaitUploads", "awaitAbort", "awaitPage"}
    /\ calls' = Answered(calls, "error", "")
    /\ pc' = "rejected"
    /\ error' = "StoreError"
    /\ UNCHANGED <<uploadLocals, targetVars, toolVars, clientState, bucketVars, i, retval>>

\* deleteBucketAndCleanup: const objects = await listObjectsV2(bucketName)
DbCallList ==
    /\ fn = "deleteBucketAndCleanup"
    /\ pc = "begin"
    /\ ~ClientMissing
    /\ calls' = Append(calls, Command("listObjectsV2", NoId, 0, NoRange, <<>>,
                                      <<>>, NoToken))
    /\ pc' = "awaitList"
    /\ UNCHANGED <<uploadLocals, targetVars, toolVars, clientState, bucketVars, i, error, retval>>

\* The first page arrives: keys are the keys of objects.Contents; with no
\* Contents the batch loop is skipped.
DbListReturns ==
    /\ pc = "awaitList"
    /\ LET objects == ListPage(storeObjects, NoToken)
       IN  /\ calls' = Answered(calls, "ok", objects.Next)
           /\ keys' = objects.Contents
    /\ i' = 0
    /\ pc' = "batchLoop"
    /\ UNCHANGED <<uploadLocals, targetVars, toolVars, clientState, storeObjects, storeUploads,
                   uploadsResponse, results, allObjects, continuationToken,
                   error, retval>>

\* for (let i = 0; i < keys.length; i += batchSize):
\* await deleteObjects(bucketName, keys.slice(i, i + batchSize))
DbCallDeleteObjects ==
    /\ pc = "batchLoop"
    /\ i < Len(keys)
    /\ calls' = Append(calls, Command("deleteObjects", NoId, 0, NoRange, <<>>,
                                      Batch(keys, i), NoToken))
    /\ pc' = "awaitDeleteObjects"
    /\ UNCHANGED <<uploadLocals, targetVars, toolVars, clientState, bucketVars, i, error, retval>>

\* The store deleted the batch.
DbDeleteObjectsReturns ==
    /\ pc = "awaitDeleteObjects"
    /\ storeObjects' = Without(storeObjects, calls[Len(calls)].Keys)
    /\ calls' = Answered(calls, "ok", "")
    /\ i' = i + batchSize
    /\ pc' = "batchLoop"
    /\ UNCHANGED <<uploadLocals, targetVars, toolVars, clientState, storeUploads, keys,
                   uploadsResponse, results, allObjects, continuationToken,
                   error, retval>>

\* After the loop: return await deleteBucket(bucketName)
DbCallDeleteBucket ==
    /\ pc = "batchLoop"
    /\ ~(i < Len(keys))
    /\ calls' = Append(calls, Command("deleteBucket", NoId, 0, NoRange, <<>>,
                                      <<>>, NoToken))
    /\ pc' = "awaitDeleteBucket"
    /\ UNCHANGED <<uploadLocals, targetVars, toolVars, clientState, bucketVars, i, error, retval>>

\* The store deletes an empty bucket (a bucket that still holds objects is
\* refused: BucketSendThrows).
DbDeleteBucketReturns ==
    /\ pc = "awaitDeleteBucket"
    /\ storeObjects = <<>>
    /\ calls' = Answered(calls, "ok", "")
    /\ retval' = "response"
    /\ pc' = "returned"
    /\ UNCHANGED <<uploadLocals, targetVars, toolVars, clientState, bucketVars, i, error>>

\* cleanupMultipartUploads:
\* const uploadsResponse = await listMultipartUploads(bucketName)
CuCallList ==
    /\ fn = "cleanupMultipartUploads"
    /\ pc = "begin"
    /\ ~ClientMissing
    /\ calls' = Append(calls, Command("listMultipartUploads", NoId, 0, NoRange,
                                      <<>>, <<>>, NoToken))
    /\ pc' = "awaitUploads"
    /\ UNCHANGED <<uploadLocals, targetVars, toolVars, clientState, bucketVars, i, error, retval>>

\* The first page of uploads arrives; results = [].
CuListReturns ==
    /\ pc = "awaitUploads"
    /\ LET page == ListPage(storeUploads, NoToken)
       IN  /\ calls' = Answered(calls, "ok", page.Next)
           /\ uploadsResponse' = page.Contents
    /\ results' = <<>>
    /\ i' = 0
    /\ pc' = "uploadLoop"
    /\ UNCHANGED <<uploadLocals, targetVars, toolVars, clientState, storeObjects, storeUploads, keys,
                   allObjects, continuationToken, error, retval>>

\* for (const upload of uploadsResponse.Uploads):
\* await abortMultipartUpload(bucketName, upload.Key, upload.UploadId)
\* (every listed upload has a Key and an UploadId).
CuCallAbort ==
    /\ pc = "uploadLoop"
    /\ i < Len(uploadsResponse)
    /\ LET upload == uploadsResponse[i + 1]
       IN  calls' = Append(calls, Command("abortMultipartUpload",
                               upload.UploadId, 0, NoRange, <<>>,
                               <<upload.Key>>, NoToken))
    /\ pc' = "awaitAbort"
    /\ UNCHANGED <<uploadLocals, targetVars, toolVars, clientState, bucketVars, i, error, retval>>

\* The store aborted the upload; results.push({ Key, UploadId }).
CuAbortReturns ==
    /\ pc = "awaitAbort"
    /\ LET upload == uploadsResponse[i + 1]
       IN  /\ storeUploads' = Without(storeUploads, <<upload>>)
           /\ results' = Append(results, upload)
    /\ calls' = Answered(calls, "ok", "")
    /\ i' = i + 1
    /\ pc' = "uploadLoop"
    /\ UNCHANGED <<uploadLocals, targetVars, toolVars, clientState, storeObjects, keys,
                   uploadsResponse, allObjects, continuationToken, error,
                   retval>>

\* return results
CuReturn ==
    /\ pc = "uploadLoop"
    /\ ~(i < Len(uploadsResponse))
    /\ retval' = "results"
    /\ pc' = "returned"
    /\ UNCHANGED <<uploadLocals, targetVars, toolVars, clientState, bucketVars, i, calls, error>>

\* listAllObjects: allObjects = [], continuationToken = undefined; each turn
\* of the do-while sends listObjectsV2 with the current token.
LaCallPage ==
    /\ fn = "listAllObjects"
    /\ pc \in {"begin", "pageLoop"}
    /\ ~ClientMissing
    /\ calls' = Append(calls, Command("listObjectsV2", NoId, 0, NoRange, <<>>,
                                      <<>>, continuationToken))
    /\ pc' = "awaitPage"
    /\ UNCHANGED <<uploadLocals, targetVars, toolVars, clientState, bucketVars, i, error, retval>>

\* The page arrives: its Contents are appended, the token is taken from
\* NextContinuationToken, and the loop goes on while there is a token;
\* otherwise allObjects is returned.
LaPageReturns ==
    /\ pc = "awaitPage"
    /\ LET response == ListPage(storeObjects, continuationToken)
       IN  /\ calls' = Answered(calls, "ok", response.Next)
           /\ allObjects' = allObjects \o response.Contents
           /\ continuationToken' = response.Next
           /\ IF HasToken(response.Next)
              THEN pc' = "pageLoop" /\ retval' = retval
              ELSE pc' = "returned" /\ retval' = "allObjects"
    /\ UNCHANGED <<uploadLocals, targetVars, toolVars, clientState, storeObjects, storeUploads, keys,
                   uploadsResponse, results, i, error>>

NextBucket ==
    \/ BucketFnUninitialized
    \/ BucketSendThrows
    \/ DbCallList
    \/ DbListReturns
    \/ DbCallDeleteObjects
    \/ DbDeleteObjectsReturns
    \/ DbCallDeleteBucket
    \/ DbDeleteBucketReturns
    \/ CuCallList
    \/ CuListReturns
    \/ CuCallAbort
    \/ CuAbortReturns
    \/ CuReturn
    \/ LaCallPage
    \/ LaPageReturns

SpecBucket == InitBucket /\ [][NextBucket]_vars

\* The event loop runs every continuation that is ready, and the store
\* answers every request.
SpecBucketFair == SpecBucket /\ WF_vars(NextBucket)

(* ------------------------- interactive tool ---------------------------- *)
\* The menus are entered while fewer than MaxRequests requests were sent.
MaxRequests == 4

\* The objects a bucket may hold when the tool starts, in listing order.
StoreContents == {<<>>, <<"k1">>, <<"back", "k1">>}

\* The sizes of the files the user may name for an upload.
ToolFileSizes == {1, Threshold + UploadFileChunk}

\* A request of the tool's own functions for bucket b and key k.
ToolCommand(op, b, k) ==
    [Command(op, NoId, 0, NoRange, <<>>, <<>>, NoToken)
        EXCEPT !.Bucket = b, !.Key = k]

\* The values the menus return to main.
Exit == [from |-> "BucketMenu", type |-> "exit", bucket |-> NoBucket,
         file |-> ""]
BucketResult(b) == [from |-> "BucketMenu", type |-> "bucket", bucket |-> b,
                    file |-> ""]
FileBack == [from |-> "FileMenu", type |-> "back", bucket |-> NoBucket,
             file |-> ""]
FileNull == [from |-> "FileMenu", type |-> "null", bucket |-> NoBucket,
             file |-> ""]
FileResult(b, f) == [from |-> "FileMenu", type |-> "file", bucket |-> b,
                     file |-> f]
OptionBack == [from |-> "OptionMenu", type |-> "back", bucket |-> NoBucket,
               file |-> ""]

\* The names in a listing.
Listed(fs) == {fs.names[k] : k \in 1..Len(fs.names)}

\* FileMenu: if (files && files.length > 0)
HasFiles_Always(fs) == TRUE
HasFiles(fs) == fs.defined /\ Len(fs.names) > 0

\* The listing of a bucket after the object key was stored in it.
WithObject(seq, key) ==
    IF \E k \in 1..Len(seq) : seq[k] = key THEN seq ELSE Append(seq, key)

\* main after initR2() succeeded: let currentBucket = null.
InitTool ==
    /\ UploadIdle
    /\ BucketIdle
    /\ pc = "main"
    /\ calls = <<>>
    /\ error = NoError
    /\ retval = Undefined
    /\ fn = "main"
    /\ defaultR2Client = CreateR2Client(1, "cfgA")
    /\ created = 1
    /\ invoked = <<>>
    /\ bucket = NoBucket
    /\ fileName = ""
    /\ currentBucket = NoBucket
    /\ menuResult = NoResult
    /\ files = NoFiles
    /\ storeBuckets \in [Buckets -> StoreContents]

\* The tool's steps leave the library functions' state alone.
toolFrame == <<impl, retval, defaultR2Client, created, invoked, bucketVars>>
uploadState == <<totalSize, chunkSize, UploadId, i, parts, progress, report,
                 result>>

\* main: if (!currentBucket) result = await BucketMenu(); BucketMenu asks
\* listAllBuckets(), which sends listBuckets.
MainBucketMenu ==
    /\ pc = "main"
    /\ currentBucket = NoBucket
    /\ Len(calls) < MaxRequests
    /\ calls' = Append(calls, ToolCommand("listBuckets", NoBucket, ""))
    /\ pc' = "awaitBuckets"
    /\ fn' = "BucketMenu"
    /\ UNCHANGED <<toolFrame, uploadState, targetVars, toolVars, error>>

\* The buckets arrive: BucketMenu shows the select prompt.
BucketsReturn ==
    /\ pc = "awaitBuckets"
    /\ calls' = Answered(calls, "ok", "")
    /\ pc' = "bucketSelect"
    /\ UNCHANGED <<toolFrame, uploadState, targetVars, toolVars, error, fn>>

\* listBuckets throws: listAllBuckets returns null and BucketMenu returns
\* { type: "exit" } without a prompt.
BucketsThrow ==
    /\ pc = "awaitBuckets"
    /\ calls' = Answered(calls, "error", "")
    /\ menuResult' = Exit
    /\ pc' = "afterBucketMenu"
    /\ UNCHANGED <<toolFrame, uploadState, targetVars, currentBucket, files,
                   storeBuckets, error, fn>>

\* The user picks a bucket or "exit".
BucketSelect(choice) ==
    /\ pc = "bucketSelect"
    /\ menuResult' = IF choice = "exit" THEN Exit ELSE BucketResult(choice)
    /\ pc' = "afterBucketMenu"
    /\ UNCHANGED <<toolFrame, uploadState, targetVars, currentBucket, files,
                   storeBuckets, calls, error, fn>>

\* main: exit, or currentBucket = result.bucket; continue.
MainBucketResult ==
    /\ pc = "afterBucketMenu"
    /\ IF menuResult.type = "exit"
       THEN pc' = "exited" /\ currentBucket' = currentBucket
       ELSE pc' = "main" /\ currentBucket' = menuResult.bucket
    /\ fn' = "main"
    /\ UNCHANGED <<toolFrame, uploadState, targetVars, menuResult, files,
                   storeBuckets, calls, error>>

\* A prompt of a menu is interrupted: ExitPromptError leaves main and
\* main().catch exits.
PromptInterrupted ==
    /\ pc \in {"bucketSelect", "fileSelect", "filePath", "optionSelect",
               "confirm", "deleteCatchPrompt"}
    /\ error' = "ExitPromptError"
    /\ pc' = "exited"
    /\ UNCHANGED <<toolFrame, uploadState, targetVars, toolVars, calls, fn>>

\* main: fileResult = await FileMenu(currentBucket); FileMenu asks
\* listFiles(bucket), which sends listObjectsV2.
MainFileMenu ==
    /\ pc = "main"
    /\ currentBucket # NoBucket
    /\ Len(calls) < MaxRequests
    /\ bucket' = currentBucket
    /\ calls' = Append(calls, ToolCommand("listObjectsV2", currentBucket, ""))
    /\ pc' = "awaitFiles"
    /\ fn' = "FileMenu"
    /\ UNCHANGED <<toolFrame, uploadState, toolVars, fileName, error>>

\* The listing arrives (getBucketDomains never throws and only adds the
\* urls): with files the select prompt is shown, without FileMenu returns
\* { type: "back" }.
FilesReturn ==
    /\ pc = "awaitFiles"
    /\ calls' = Answered(calls, "ok", "")
    /\ LET fs == [defined |-> TRUE, names |-> storeBuckets[bucket]]
       IN  /\ files' = fs
           /\ IF HasFiles(fs)
              THEN pc' = "fileSelect" /\ menuResult' = menuResult
              ELSE pc' = "afterFileMenu" /\ menuResult' = FileBack
    /\ UNCHANGED <<toolFrame, uploadState, targetVars, currentBucket,
                   storeBuckets, error, fn>>

\* listObjectsV2 throws: listFiles returns undefined.
FilesThrow ==
    /\ pc = "awaitFiles"
    /\ calls' = Answered(calls, "error", "")
    /\ files' = NoFiles
    /\ IF HasFiles(NoFiles)
       THEN pc' = "fileSelect" /\ menuResult' = menuResult
       ELSE pc' = "afterFileMenu" /\ menuResult' = FileBack
    /\ UNCHANGED <<toolFrame, uploadState, targetVars, currentBucket,
                   storeBuckets, error, fn>>

\* The user picks a file, "upload" or "back"; the value of a file is its
\* name and is compared with "back" and "upload" first.
FileSelect(choice) ==
    /\ pc = "fileSelect"
    /\ IF choice = "back"
       THEN pc' = "afterFileMenu" /\ menuResult' = FileBack
       ELSE IF choice = "upload"
       THEN pc' = "filePath" /\ menuResult' = menuResult
       ELSE pc' = "afterFileMenu" /\ menuResult' = FileResult(bucket, choice)
    /\ UNCHANGED <<toolFrame, uploadState, targetVars, currentBucket, files,
                   storeBuckets, calls, error, fn>>

\* The user enters a path: uploadFile(bucket, filePath) reads the file,
\* whose name becomes the key.
FilePathEntered(name, size) ==
    /\ pc = "filePath"
    /\ fileName' = name
    /\ totalSize' = size
    /\ chunkSize' = 0
    /\ UploadId' = NoId
    /\ i' = 0
    /\ parts' = <<>>
    /\ progress' = <<>>
    /\ report' = "none"
    /\ result' = Undefined
    /\ error' = NoError
    /\ pc' = "uploadFile"
    /\ fn' = "uploadFile"
    /\ UNCHANGED <<toolFrame, toolVars, bucket, calls>>

\* The file cannot be read: Bun.file(filePath).bytes() rejects inside the
\* try block of uploadFile.
FilePathUnreadable ==
    /\ pc = "filePath"
    /\ error' = "ReadError"
    /\ report' = "none"
    /\ pc' = "fileCatch"
    /\ fn' = "uploadFile"
    /\ UNCHANGED <<toolFrame, toolVars, targetVars, calls, totalSize,
                   chunkSize, UploadId, i, parts, progress, result>>

\* uploadFile returned: FileMenu returns null.  An upload whose last request
\* (putObject or complete) succeeded has stored the object.
UploadFileReturned ==
    /\ pc = "fileReturned"
    /\ menuResult' = FileNull
    /\ storeBuckets' =
          IF /\ calls[Len(calls)].op \in {"putObject", "complete"}
             /\ calls[Len(calls)].result = "ok"
          THEN [storeBuckets EXCEPT ![bucket] = WithObject(@, fileName)]
          ELSE storeBuckets
    /\ pc' = "afterFileMenu"
    /\ fn' = "FileMenu"
    /\ UNCHANGED <<toolFrame, uploadState, targetVars, currentBucket, files,
                   calls, error>>

\* The last prompt of uploadFile was interrupted: the error leaves FileMenu
\* and main.
UploadFileRejected ==
    /\ pc = "fileRejected"
    /\ pc' = "exited"
    /\ UNCHANGED <<toolFrame, uploadState, targetVars, toolVars, calls, error,
                   fn>>

\* main: null -> continue; back -> currentBucket = null; a file ->
\* OptionMenu(currentBucket, fileResult.file).
MainFileResult ==
    /\ pc = "afterFileMenu"
    /\ IF menuResult.type = "null"
       THEN /\ pc' = "main" /\ fn' = "main"
            /\ UNCHANGED <<currentBucket, bucket, fileName>>
       ELSE IF menuResult.type = "back"
       THEN /\ pc' = "main" /\ fn' = "main"
            /\ currentBucket' = NoBucket
            /\ UNCHANGED <<bucket, fileName>>
       ELSE /\ pc' = "optionSelect" /\ fn' = "OptionMenu"
            /\ bucket' = currentBucket
            /\ fileName' = menuResult.file
            /\ UNCHANGED currentBucket
    /\ UNCHANGED <<toolFrame, uploadState, menuResult, files, storeBuckets,
                   calls, error>>

\* OptionMenu: the user picks download, delete or back.
OptionSelect(choice) ==
    /\ pc = "optionSelect"
    /\ IF choice = "back"
       THEN /\ pc' = "afterOptionMenu" /\ menuResult' = OptionBack
            /\ calls' = calls
       ELSE IF choice = "download"
       THEN /\ pc' = "awaitGet" /\ menuResult' = menuResult
            /\ calls' = Append(calls, ToolCommand("getObject", bucket, fileName))
       ELSE /\ pc' = "confirm" /\ menuResult' = menuResult
            /\ calls' = calls
    /\ UNCHANGED <<toolFrame, uploadState, targetVars, currentBucket, files,
                   storeBuckets, error, fn>>

\* downloadFile: the object arrives and is written; the prompt follows.
GetReturns ==
    /\ pc = "awaitGet"
    /\ calls' = Answered(calls, "ok", "")
    /\ pc' = "downloadPrompt"
    /\ UNCHANGED <<toolFrame, uploadState, targetVars, toolVars, error, fn>>

\* getObject throws (or the content is empty, or the write fails): the catch
\* block prints and downloadFile returns.
GetThrows ==
    /\ pc = "awaitGet"
    /\ calls' = Answered(calls, "error", "")
    /\ error' = "StoreError"
    /\ menuResult' = OptionBack
    /\ pc' = "afterOptionMenu"
    /\ UNCHANGED <<toolFrame, uploadState, targetVars, currentBucket, files,
                   storeBuckets, fn>>

\* The prompt of downloadFile is inside its try block: a key or an interrupt,
\* downloadFile returns and OptionMenu returns { type: "back" }.
DownloadPrompt(interrupted) ==
    /\ pc = "downloadPrompt"
    /\ error' = IF interrupted THEN "ExitPromptError" ELSE error
    /\ menuResult' = OptionBack
    /\ pc' = "afterOptionMenu"
    /\ UNCHANGED <<toolFrame, uploadState, targetVars, currentBucket, files,
                   storeBuckets, calls, fn>>

\* const isDelete = await confirm({ default: false }): the user answers.
Confirm(isDelete) ==
    /\ pc = "confirm"
    /\ pc' = IF isDelete THEN "isDelete" ELSE "notDelete"
    /\ UNCHANGED <<toolFrame, uploadState, targetVars, toolVars, calls, error,
                   fn>>

\* if (isDelete) await deleteFile(bucket, fileName): deleteObject is sent.
CallDeleteFile_Unconfirmed ==
    /\ pc \in {"isDelete", "notDelete"}
    /\ calls' = Append(calls, ToolCommand("deleteObject", bucket, fileName))
    /\ pc' = "awaitDelete"
    /\ UNCHANGED <<toolFrame, uploadState, targetVars, toolVars, error, fn>>
CallDeleteFile ==
    /\ pc = "isDelete"
    /\ calls' = Append(calls, ToolCommand("deleteObject", bucket, fileName))
    /\ pc' = "awaitDelete"
    /\ UNCHANGED <<toolFrame, uploadState, targetVars, toolVars, error, fn>>

\* Declined: OptionMenu returns { type: "back" } at once.
SkipDeleteFile ==
    /\ pc = "notDelete"
    /\ menuResult' = OptionBack
    /\ pc' = "afterOptionMenu"
    /\ UNCHANGED <<toolFrame, uploadState, targetVars, currentBucket, files,
                   storeBuckets, calls, error, fn>>

\* The store deleted the object: deleteFile prints and prompts.
DeleteReturns ==
    /\ pc = "awaitDelete"
    /\ calls' = Answered(calls, "ok", "")
    /\ storeBuckets' = [storeBuckets EXCEPT
                           ![bucket] = Without(@, <<fileName>>)]
    /\ pc' = "deletePrompt"
    /\ UNCHANGED <<toolFrame, uploadState, targetVars, currentBucket,
                   menuResult, files, error, fn>>

\* deleteObject throws: the catch block prints and prompts.
DeleteThrows ==
    /\ pc = "awaitDelete"
    /\ calls' = Answered(calls, "error", "")
    /\ error' = "StoreError"
    /\ pc' = "deleteCatchPrompt"
    /\ UNCHANGED <<toolFrame, uploadState, targetVars, toolVars, fn>>

\* The prompt after a deletion is inside the try block: an interrupt is
\* caught and the catch block prompts again.
DeletePrompt(interrupted) ==
    /\ pc = "deletePrompt"
    /\ IF interrupted
       THEN /\ pc' = "deleteCatchPrompt" /\ error' = "ExitPromptError"
            /\ menuResult' = menuResult
       ELSE /\ pc' = "afterOptionMenu" /\ error' = error
            /\ menuResult' = OptionBack
    /\ UNCHANGED <<toolFrame, uploadState, targetVars, currentBucket, files,
                   storeBuckets, calls, fn>>

\* A key at the prompt of the catch block: deleteFile returns.
DeleteCatchPromptEnter ==
    /\ pc = "deleteCatchPrompt"
    /\ menuResult' = OptionBack
    /\ pc' = "afterOptionMenu"
    /\ UNCHANGED <<toolFrame, uploadState, targetVars, currentBucket, files,
                   storeBuckets, calls, error, fn>>

\* main: optionResult is { type: "back" }: continue with currentBucket kept.
MainOptionResult_ResetsBucket ==
    /\ pc = "afterOptionMenu"
    /\ pc' = "main"
    /\ fn' = "main"
    /\ currentBucket' = NoBucket
    /\ UNCHANGED <<toolFrame, uploadState, targetVars, menuResult, files,
                   storeBuckets, calls, error>>
MainOptionResult ==
    /\ pc = "afterOptionMenu"
    /\ pc' = "main"
    /\ fn' = "main"
    /\ UNCHANGED <<toolFrame, uploadState, targetVars, toolVars, calls, error>>

NextTool ==
    \/ MainBucketMenu
    \/ BucketsReturn
    \/ BucketsThrow
    \/ \E choice \in Buckets \cup {"exit"} : BucketSelect(choice)
    \/ MainBucketResult
    \/ PromptInterrupted
    \/ MainFileMenu
    \/ FilesReturn
    \/ FilesThrow
    \/ \E choice \in Listed(files) \cup {"upload", "back"} : FileSelect(choice)
    \/ \E name \in FileNames, size \in ToolFileSizes :
          FilePathEntered(name, size)
    \/ FilePathUnreadable
    \/ UploadFileReturned
    \/ UploadFileRejected
    \/ MainFileResult
    \/ \E choice \in {"download", "delete", "back"} : OptionSelect(choice)
    \/ GetReturns
    \/ GetThrows
    \/ \E interrupted \in BOOLEAN : DownloadPrompt(interrupted)
    \/ \E isDelete \in BOOLEAN : Confirm(isDelete)
    \/ CallDeleteFile
    \/ SkipDeleteFile
    \/ DeleteReturns
    \/ DeleteThrows
    \/ \E interrupted \in BOOLEAN : DeletePrompt(interrupted)
    \/ DeleteCatchPromptEnter
    \/ MainOptionResult
    \/ UploadFileMultipart
    \/ UploadFilePut
    \/ PutReturns
    \/ PutThrows
    \/ MultipartReturned
    \/ MultipartRejected
    \/ FilePromptTryEnter
    \/ FilePromptTryInterrupt
    \/ FileCatch
    \/ FilePromptEnter
    \/ FilePromptInterrupt
    \/ CallCreate
    \/ \E id \in {"u1", NoId} : CreateReturns(id)
    \/ CreateThrows
    \/ CallUploadPart
    \/ PartReturns("e1")
    \/ PartThrows
    \/ CallComplete
    \/ CompleteReturns("v1")
    \/ CompleteThrows
    \/ Catch
    \/ PromptEnter
    \/ PromptInterrupt

SpecTool == InitTool /\ [][NextTool]_vars

(* ====================== properties of the upload ====================== *)
CeilDiv(a, b) == (a + b - 1) \div b

\* The positions in the request log of the requests of one operation.
IndexesOf(op) == {j \in 1..Len(calls) : calls[j].op = op}

IsPart(c) == c.op = "uploadPart"
PartCalls == SelectSeq(calls, IsPart)

IsDone == pc \in {"returned", "rejected"}

\* createMultipartUpload answered with an UploadId.
CreateGaveId ==
    /\ Len(calls) >= 1
    /\ calls[1].result = "ok"
    /\ calls[1].ret # NoId

\* createMultipartUpload threw or answered without an UploadId.
CreateFailedOrNoId ==
    /\ Len(calls) >= 1
    /\ \/ calls[1].result = "error"
       \/ calls[1].result = "ok" /\ calls[1].ret = NoId

NoPartFailed == \A j \in IndexesOf("uploadPart") : calls[j].result # "error"

\* A store call failed: a request threw, or no UploadId came back.
StoreFailed ==
    \/ \E j \in 1..Len(calls) : calls[j].result = "error"
    \/ CreateFailedOrNoId

\* The loop has been left with no uploadPart failure: every part the loop
\* issues has been issued and answered.
AllPartsAnswered ==
    /\ CreateGaveId
    /\ NoPartFailed
    /\ pc \notin {"start", "awaitCreate", "loop", "awaitPart"}

\* C1 (as claimed): for totalSize > 0, when createMultipartUpload returned an
\* UploadId and no uploadPart call failed, the finished invocation has called
\* completeMultipartUpload exactly once, after every uploadPart, with the full
\* list of ceil(totalSize / chunkSize) parts.
C1_CompletesOnceAfterAllParts ==
    (IsDone /\ totalSize > 0 /\ CreateGaveId /\ NoPartFailed) =>
        /\ Cardinality(IndexesOf("complete")) = 1
        /\ \A j \in IndexesOf("complete") :
              /\ \A k \in IndexesOf("uploadPart") : k < j
              /\ Len(calls[j].Parts) = CeilDiv(totalSize, chunkSize)

\* C2: for totalSize > 0 the part numbers sent to uploadPart are 1, 2, ... in
\* ascending order, each once, never more than ceil(totalSize / chunkSize),
\* and exactly that many once the loop is left with every uploadPart
\* succeeding.
C2_PartNumbersInOrder ==
    totalSize > 0 =>
        /\ \A j \in 1..Len(PartCalls) : PartCalls[j].PartNumber = j
        /\ Len(PartCalls) <= CeilDiv(totalSize, chunkSize)
        /\ AllPartsAnswered => Len(PartCalls) = CeilDiv(totalSize, chunkSize)

\* Three parts were issued and answered, the third being the last one.
C2_Witness ==
    /\ IsDone
    /\ AllPartsAnswered
    /\ CeilDiv(totalSize, chunkSize) = 3
    /\ Len(PartCalls) = 3

\* C3: for totalSize > 0 the byte range of part p is
\* [(p-1)*chunkSize, min(p*chunkSize, totalSize)): the ranges start at 0, each
\* starts where the previous one ends, none is empty, and once the loop is
\* left with every uploadPart succeeding they are ceil(totalSize / chunkSize)
\* ranges ending at totalSize.
C3_RangesCoverFile ==
    totalSize > 0 =>
        /\ \A j \in 1..Len(PartCalls) :
              /\ PartCalls[j].lo = (j - 1) * chunkSize
              /\ PartCalls[j].hi = Min(j * chunkSize, totalSize)
              /\ PartCalls[j].lo = (IF j = 1 THEN 0 ELSE PartCalls[j - 1].hi)
              /\ PartCalls[j].lo < PartCalls[j].hi
        /\ AllPartsAnswered =>
              /\ Len(PartCalls) = CeilDiv(totalSize, chunkSize)
              /\ PartCalls[Len(PartCalls)].hi = totalSize

\* Several parts, the last one shorter than chunkSize, all issued.
C3_Witness ==
    /\ AllPartsAnswered
    /\ Len(PartCalls) >= 3
    /\ PartCalls[Len(PartCalls)].hi = totalSize
    /\ PartCalls[Len(PartCalls)].hi - PartCalls[Len(PartCalls)].lo < chunkSize

\* C4: for totalSize > 0 no part has length 0, and the last part has length
\* totalSize mod chunkSize when that is nonzero and chunkSize otherwise.
C4_LastPartLength ==
    totalSize > 0 =>
        /\ \A j \in 1..Len(PartCalls) : PartCalls[j].hi - PartCalls[j].lo > 0
        /\ AllPartsAnswered =>
              LET last == PartCalls[Len(PartCalls)]
              IN  last.hi - last.lo =
                     (IF totalSize % chunkSize # 0
                      THEN totalSize % chunkSize ELSE chunkSize)

\* totalSize is an exact multiple of chunkSize (two parts or more) and the
\* upload went through to completion: the last part is a full chunk.
C4_Witness ==
    /\ IsDone
    /\ AllPartsAnswered
    /\ totalSize % chunkSize = 0
    /\ Len(PartCalls) >= 2
    /\ PartCalls[Len(PartCalls)].hi - PartCalls[Len(PartCalls)].lo = chunkSize
    /\ IndexesOf("complete") # {}

\* C5: when uploadPart failed on part p, completeMultipartUpload is not called
\* and no uploadPart is issued for a part number greater than p.
C5_PartFailureStopsUpload ==
    \A j \in IndexesOf("uploadPart") :
        calls[j].result = "error" =>
            /\ IndexesOf("complete") = {}
            /\ \A k \in IndexesOf("uploadPart") :
                  calls[k].PartNumber <= calls[j].PartNumber

\* uploadPart failed on part 2 of at least 3 and the invocation is over.
C5_Witness ==
    /\ IsDone
    /\ CeilDiv(totalSize, chunkSize) >= 3
    /\ \E j \in IndexesOf("uploadPart") :
          calls[j].result = "error" /\ calls[j].PartNumber = 2

C7_CompletionManifest ==
    \A j \in IndexesOf("complete") :
        LET ps == calls[j].Parts
            IsOkPart(c) == c.op = "uploadPart" /\ c.result = "ok"
            ok == SelectSeq(SubSeq(calls, 1, j - 1), IsOkPart)
        IN  /\ Len(ps) = Len(ok)
            /\ \A k \in 1..Len(ps) :
                  /\ ps[k].PartNumber = ok[k].PartNumber
                  /\ ps[k].ETag = ok[k].ret
            /\ \A k \in 1..(Len(ps) - 1) :
                  ps[k].PartNumber < ps[k + 1].PartNumber

\* completeMultipartUpload was called with parts carrying different ETags.
C7_Witness ==
    \E j \in IndexesOf("complete") :
        /\ Len(calls[j].Parts) >= 2
        /\ calls[j].Parts[1].ETag # calls[j].Parts[2].ETag

\* C8 (as claimed): for totalSize > 0 progress is reported once after each
\* successfully uploaded part, the percentage never decreases, never exceeds
\* 100, and is 100 after the final part.
C8_ProgressEndsAt100 ==
    totalSize > 0 =>
        /\ Len(progress) = Len(parts)
        /\ impl = "cli" =>
              /\ \A k \in 1..Len(progress) : progress[k].pct <= 100
              /\ \A k \in 1..(Len(progress) - 1) :
                    progress[k].pct <= progress[k + 1].pct
              /\ Len(parts) = CeilDiv(totalSize, chunkSize) =>
                    progress[Len(progress)].pct = 100

\* C9: when createMultipartUpload fails or returns no UploadId, no
\* uploadPart, completeMultipartUpload or abortMultipartUpload call is made.
C9_NoCallsAfterFailedCreate ==
    CreateFailedOrNoId =>
        /\ IndexesOf("uploadPart") = {}
        /\ IndexesOf("complete") = {}
        /\ IndexesOf("abort") = {}

\* createMultipartUpload answered without an UploadId for a non-empty file
\* and the invocation is over.
C9_Witness ==
    /\ IsDone
    /\ totalSize > 0
    /\ Len(calls) = 1
    /\ calls[1].result = "ok"
    /\ calls[1].ret = NoId

\* C10: each part number is sent to uploadPart at most once,
\* completeMultipartUpload is called at most once and abortMultipartUpload is
\* never called, whatever fails.
C10_NoRetryNoAbort ==
    /\ \A j, k \in IndexesOf("uploadPart") :
          calls[j].PartNumber = calls[k].PartNumber => j = k
    /\ Cardinality(IndexesOf("complete")) <= 1
    /\ IndexesOf("abort") = {}

\* The completion call failed after two or more parts had been uploaded, and
\* the invocation is over.
C10_Witness ==
    /\ IsDone
    /\ Len(parts) >= 2
    /\ \E j \in IndexesOf("complete") : calls[j].result = "error"

\* C11: at most one store request is outstanding: a request is sent only
\* when every earlier request has been answered, the first uploadPart only
\* after createMultipartUpload returned an UploadId, and
\* completeMultipartUpload only after every uploadPart returned.
C11_OneRequestOutstanding ==
    /\ \A j \in 1..(Len(calls) - 1) : calls[j].result # "pending"
    /\ \A j \in IndexesOf("uploadPart") :
          /\ j > 1
          /\ calls[1].op = "create"
          /\ calls[1].result = "ok"
          /\ calls[j - 1].result = "ok"
    /\ \A j \in IndexesOf("complete") :
          \A k \in IndexesOf("uploadPart") : k < j /\ calls[k].result = "ok"

\* The second uploadPart is in flight; the first one has been answered.
C11_Witness ==
    /\ Len(calls) = 3
    /\ calls[3].op = "uploadPart"
    /\ calls[3].PartNumber = 2
    /\ calls[3].result = "pending"
    /\ calls[2].result = "ok"

\* C13 (as claimed): for totalSize = 0 one part, number 1 with an empty body,
\* is uploaded, and completeMultipartUpload is never called with an empty
\* parts list.
C13_EmptyFileIsOneEmptyPart ==
    totalSize = 0 =>
        /\ \A j \in IndexesOf("complete") : calls[j].Parts # <<>>
        /\ AllPartsAnswered =>
              /\ Len(PartCalls) = 1
              /\ PartCalls[1].PartNumber = 1
              /\ PartCalls[1].lo = PartCalls[1].hi

\* C14 (as claimed): a successful invocation returns the identifier that
\* completeMultipartUpload answered with.
C14_ReturnsVersionId ==
    (pc = "returned" /\ report = "succeed") =>
        /\ retval \in VersionIds
        /\ \A j \in IndexesOf("complete") : retval = calls[j].ret

\* C14 (amended): a successful invocation holds the VersionId that
\* completeMultipartUpload answered with in its local result, and returns
\* undefined.
C14_VersionKeptNotReturned ==
    report = "succeed" =>
        /\ \A j \in IndexesOf("complete") : result = calls[j].ret
        /\ result \in VersionIds
        /\ retval = Undefined

\* A successful invocation has returned; the store had answered "v2".
C14_Witness ==
    /\ pc = "returned"
    /\ report = "succeed"
    /\ result = "v2"
    /\ IndexesOf("complete") # {}

\* C12: uploadFile takes the multipart path exactly when the size exceeds
\* 300 MiB: above it, multipartUpload runs with chunkSize 50 MiB and no
\* putObject is sent; at or below it (300 MiB included) one putObject and no
\* multipart request is sent.
C12_MultipartIffAboveThreshold ==
    LET multipartOps == IndexesOf("create") \cup IndexesOf("uploadPart")
                        \cup IndexesOf("complete") \cup IndexesOf("abort")
        fileDone == pc \in {"fileReturned", "fileRejected"}
    IN  /\ totalSize > 300 * MiB =>
              /\ IndexesOf("putObject") = {}
              /\ pc # "uploadFile" => chunkSize = 50 * MiB
              /\ (fileDone /\ ~ClientMissing) => IndexesOf("create") # {}
        /\ totalSize <= 300 * MiB =>
              /\ multipartOps = {}
              /\ Cardinality(IndexesOf("putObject")) <= 1
              /\ (fileDone /\ ~ClientMissing) =>
                    Cardinality(IndexesOf("putObject")) = 1

\* A file of exactly 300 MiB was uploaded with one putObject.
C12_Witness ==
    /\ pc = "fileReturned"
    /\ totalSize = 300 * MiB
    /\ Len(calls) = 1
    /\ calls[1].op = "putObject"
    /\ calls[1].result = "ok"

\* C15: a client obtained after initR2Client is never null and is the
\* instance the latest initR2Client created: library calls made between the
\* same two initR2Client calls obtain the same instance, calls separated by
\* an initR2Client obtain different ones, and every request a wrapper sends
\* goes through the instance getR2Client returns.
C15_OneSharedClient ==
    /\ \A k \in 1..Len(invoked) :
          invoked[k].inits > 0 =>
              /\ invoked[k].client # Null
              /\ invoked[k].client.id = invoked[k].inits
              /\ invoked[k].inits = created =>
                    invoked[k].client = defaultR2Client
    /\ \A k, l \in 1..Len(invoked) :
          (invoked[k].inits > 0 /\ invoked[l].inits > 0) =>
              (invoked[k].client = invoked[l].client
                  <=> invoked[k].inits = invoked[l].inits)
    /\ \A j \in 1..Len(calls) :
          \E k \in 1..Len(invoked) :
              /\ invoked[k].op = calls[j].op
              /\ invoked[k].client = calls[j].client
              /\ calls[j].client # Null

\* After one initR2Client, getR2Client and a wrapper obtained the same
\* client, which is the current one.
C15_Witness ==
    /\ created = 1
    /\ Len(invoked) = 2
    /\ invoked[1].op = "getR2Client"
    /\ invoked[2].op = "putObject"
    /\ invoked[1].client = invoked[2].client
    /\ invoked[2].client = defaultR2Client
    /\ Len(calls) = 1

\* C16: a library call made before any initR2Client throws the
\* 'R2 client not initialized' error, and no request is sent to the store
\* while no client was initialised.
C16_UninitializedThrows ==
    /\ \A k \in 1..Len(invoked) :
          invoked[k].inits = 0 =>
              /\ invoked[k].outcome = "threw"
              /\ invoked[k].thrown = NotInitialized
              /\ invoked[k].answer = NoErr
    /\ created = 0 => calls = <<>>

\* uploadPart and putObject were called before initR2Client.
C16_Witness ==
    /\ created = 0
    /\ Len(invoked) = 2
    /\ invoked[1].op = "uploadPart"
    /\ invoked[2].op = "putObject"
    /\ calls = <<>>

\* C20: headBucket returns true when the request succeeds, false when it
\* fails with name NoSuchBucket or status 404, and otherwise rethrows the
\* store's error unchanged.
C20_HeadBucketOutcome ==
    \A k \in 1..Len(invoked) :
        (invoked[k].op = "headBucket" /\ invoked[k].answer # NoErr) =>
            LET e == invoked[k]
            IN  IF e.answer = OkAnswer
                THEN e.outcome = "returned" /\ e.value = "true"
                ELSE IF e.answer.name = "NoSuchBucket" \/ e.answer.status = 404
                THEN e.outcome = "returned" /\ e.value = "false"
                ELSE e.outcome = "threw" /\ e.thrown = e.answer

\* headBucket rethrew AccessDenied / 403 and, in another call, returned
\* false for a 404.
C20_Witness ==
    /\ Len(invoked) = 2
    /\ invoked[1].op = "headBucket"
    /\ invoked[1].outcome = "threw"
    /\ invoked[1].thrown = [name |-> "AccessDenied", status |-> 403]
    /\ invoked[2].op = "headBucket"
    /\ invoked[2].value = "false"
    /\ invoked[2].answer = [name |-> "AccessDenied", status |-> 404]

(* ---------------- properties of cleanup and listing -------------------- *)
\* C17: deleteBucketAndCleanup empties the bucket before it deletes it:
\* whatever the number of objects, the bucket holds no object when the
\* deleteBucket request is sent (nobody else writes to the bucket).
C17_BucketEmptyWhenDeleted ==
    fn = "deleteBucketAndCleanup" =>
        (IndexesOf("deleteBucket") # {} => storeObjects = <<>>)

\* The (Key, UploadId) pairs of the abortMultipartUpload requests, in the
\* order they were sent.
RECURSIVE AbortedUpTo(_)
AbortedUpTo(n) ==
    IF n = 0 THEN <<>>
    ELSE IF calls[n].op = "abortMultipartUpload"
         THEN Append(AbortedUpTo(n - 1),
                     [Key |-> calls[n].Keys[1], UploadId |-> calls[n].UploadId])
         ELSE AbortedUpTo(n - 1)

\* C18: when cleanupMultipartUploads returns, every multipart upload that
\* was in progress has been aborted, each by exactly one request, and the
\* returned list holds the aborted (Key, UploadId) pairs in listing order.
C18_AllUploadsAborted ==
    (fn = "cleanupMultipartUploads" /\ pc = "returned") =>
        /\ storeUploads = <<>>
        /\ results = AbortedUpTo(Len(calls))
        /\ \A a, b \in 1..Len(results) : results[a] = results[b] => a = b

\* The Contents of the pages answered so far, in page order.
RECURSIVE PagesUpTo(_)
PagesUpTo(n) ==
    IF n = 0 THEN <<>>
    ELSE IF calls[n].result = "ok"
         THEN PagesUpTo(n - 1)
                \o ListPage(storeObjects, calls[n].ContinuationToken).Contents
         ELSE PagesUpTo(n - 1)

C19_Pagination ==
    fn = "listAllObjects" =>
        /\ \A j \in 1..Len(calls) : calls[j].op = "listObjectsV2"
        /\ Len(calls) >= 1 => calls[1].ContinuationToken = NoToken
        /\ \A j \in 1..(Len(calls) - 1) :
              /\ calls[j].result = "ok"
              /\ calls[j].ret # NoToken
              /\ calls[j + 1].ContinuationToken = calls[j].ret
        /\ allObjects = PagesUpTo(Len(calls))
        /\ pc = "returned" =>
              /\ calls[Len(calls)].result = "ok"
              /\ calls[Len(calls)].ret = NoToken
              /\ allObjects = storeObjects

\* C19: listAllObjects sends listObjectsV2 requests, the first without a
\* token and each later one with the NextContinuationToken of the response
\* before it, sends nothing after a response without a token, returns the
\* Contents of all pages in page order, and comes to an end once the store
\* has answered with a page that has no token.
C19_ListAllObjectsPaginates ==
    /\ []C19_Pagination
    /\ (fn = "listAllObjects" /\ pc = "begin") ~> IsDone

\* A bucket of MaxObjects objects was listed in several pages and returned
\* whole.
C19_Witness ==
    /\ fn = "listAllObjects"
    /\ pc = "returned"
    /\ Len(calls) >= 2
    /\ calls[1].ret # NoToken
    /\ calls[2].ContinuationToken = calls[1].ret
    /\ Len(allObjects) = MaxObjects
    /\ allObjects = storeObjects

(* ------------------ properties of the upload's target ------------------ *)
\* Every uploadPart and complete request names the bucket and the key of
\* the create request and the UploadId the create request returned.
C21_SameTarget ==
    \A j \in IndexesOf("uploadPart") \cup IndexesOf("complete") :
        /\ calls[1].op = "create"
        /\ calls[1].result = "ok"
        /\ calls[j].UploadId = calls[1].ret
        /\ calls[j].Bucket = calls[1].Bucket
        /\ calls[j].Key = calls[1].Key
        /\ calls[j].Bucket = bucket
        /\ calls[j].Key = fileName

\* No step changes chunkSize, totalSize, bucket or key, nor the UploadId
\* once createMultipartUpload has returned it.
C21_Frame ==
    /\ chunkSize' = chunkSize
    /\ totalSize' = totalSize
    /\ bucket' = bucket
    /\ fileName' = fileName
    /\ UploadId # NoId => UploadId' = UploadId

\* C21: every uploadPart call and the completeMultipartUpload call of one
\* multipartUpload invocation carry the same bucket, the same key and the
\* UploadId that invocation's createMultipartUpload returned, and chunkSize,
\* totalSize, bucket, key and UploadId do not change during the invocation.
C21_OneTargetOneUploadId ==
    /\ []C21_SameTarget
    /\ [][C21_Frame]_vars

\* An upload of two parts to bucket b2 was completed under the UploadId u2
\* that its create request returned.
C21_Witness ==
    /\ fn = "multipartUpload"
    /\ pc = "returned"
    /\ bucket = "b2"
    /\ UploadId = "u2"
    /\ Len(calls) = 4
    /\ calls[1].ret = "u2"
    /\ calls[2].op = "uploadPart" /\ calls[2].UploadId = "u2"
    /\ calls[3].op = "uploadPart" /\ calls[3].UploadId = "u2"
    /\ calls[4].op = "complete" /\ calls[4].UploadId = "u2"
    /\ calls[4].Bucket = "b2"

(* ------------------ properties of the interactive tool ----------------- *)
\* currentBucket changes only when main takes a bucket from BucketMenu or
\* takes "back" from FileMenu.
C22_BucketChanges ==
    currentBucket' # currentBucket =>
        \/ /\ pc = "afterBucketMenu"
           /\ menuResult.type = "bucket"
           /\ currentBucket' = menuResult.bucket
        \/ /\ pc = "afterFileMenu"
           /\ menuResult = FileBack
           /\ currentBucket' = NoBucket

\* main is at the top of its loop after OptionMenu returned or after an
\* upload started from FileMenu.
C22_BackInMain == pc = "main" /\ menuResult \in {OptionBack, FileNull}

\* From there the next step enters FileMenu with the bucket kept.
C22_NextScreen ==
    C22_BackInMain =>
        /\ pc' = "awaitFiles"
        /\ fn' = "FileMenu"
        /\ bucket' = currentBucket
        /\ currentBucket' = currentBucket

\* C22: in the main loop currentBucket is set to the chosen bucket when
\* BucketMenu returns a bucket, reset to null when FileMenu returns "back",
\* and changed by nothing else; after OptionMenu returns and after an upload
\* started from FileMenu the next screen is FileMenu for the same bucket.
C22_BucketKeptAcrossMenus ==
    /\ [](C22_BackInMain => currentBucket # NoBucket /\ currentBucket = bucket)
    /\ [][C22_BucketChanges /\ C22_NextScreen]_vars

\* After a confirmed deletion in bucket b2 the file list of b2 is requested
\* again.
C22_Witness ==
    /\ pc = "awaitFiles"
    /\ menuResult = OptionBack
    /\ currentBucket = "b2"
    /\ bucket = "b2"
    /\ Len(calls) = 4
    /\ calls[3].op = "deleteObject"
    /\ calls[3].result = "ok"
    /\ calls[4].op = "listObjectsV2"
    /\ calls[4].Bucket = "b2"

\* The step sends a deleteObject request.
C23_SendsDelete ==
    /\ Len(calls') = Len(calls) + 1
    /\ calls'[Len(calls')].op = "deleteObject"

\* A deleteObject request is sent only from a confirmed deletion in
\* OptionMenu, for the file selected in FileMenu of the current bucket.
C23_OnlyConfirmed ==
    C23_SendsDelete =>
        /\ pc = "isDelete"
        /\ fn = "OptionMenu"
        /\ menuResult.from = "FileMenu"
        /\ menuResult.type = "file"
        /\ menuResult.file \in Listed(files)
        /\ menuResult.bucket = currentBucket
        /\ calls'[Len(calls')].Bucket = menuResult.bucket
        /\ calls'[Len(calls')].Key = menuResult.file

\* After declining nothing is sent and OptionMenu returns "back".
C23_Declined ==
    pc = "notDelete" =>
        /\ calls' = calls
        /\ pc' = "afterOptionMenu"
        /\ menuResult' = OptionBack
        /\ currentBucket' = currentBucket

\* C23: in the interactive tool a deleteObject request for (bucket, file) is
\* issued only after the user selected that file in FileMenu of that bucket,
\* chose delete in OptionMenu and confirmed; declining the confirmation
\* issues no deleteObject and returns to the file list.
C23_DeleteOnlyAfterConfirmation ==
    [][C23_OnlyConfirmed /\ C23_Declined]_vars

\* The user confirmed the deletion of k1 in b1 and the request was sent.
C23_Witness ==
    /\ pc = "awaitDelete"
    /\ Len(calls) = 3
    /\ calls[3].op = "deleteObject"
    /\ calls[3].Bucket = "b1"
    /\ calls[3].Key = "k1"
    /\ menuResult = FileResult("b1", "k1")
    /\ currentBucket = "b1"

\* The select prompt of FileMenu (with its upload choice) and the path
\* prompt are shown only over a listing that succeeded with an object.
C24_PromptNeedsFiles ==
    pc \in {"fileSelect", "filePath"} =>
        /\ files.defined
        /\ Len(files.names) > 0
        /\ files.names = storeBuckets[bucket]

\* The listing failed or is empty: FileMenu returns "back" with no prompt.
C24_NoFilesBack ==
    (pc = "awaitFiles" /\ (~files'.defined \/ Len(files'.names) = 0)) =>
        /\ pc' = "afterFileMenu"
        /\ menuResult' = FileBack

\* main takes "back": currentBucket is reset, and BucketMenu is next.
C24_BackToBucketMenu ==
    /\ (pc = "afterFileMenu" /\ menuResult = FileBack) =>
          pc' = "main" /\ currentBucket' = NoBucket
    /\ (pc = "main" /\ currentBucket = NoBucket) =>
          pc' = "awaitBuckets" /\ fn' = "BucketMenu"

\* A step that starts an upload (putObject or createMultipartUpload is sent)
\* is taken for a bucket that holds an object.
C24_UploadNeedsObject ==
    (/\ Len(calls') = Len(calls) + 1
     /\ calls'[Len(calls')].op \in {"putObject", "create"}) =>
        /\ calls'[Len(calls')].Bucket = currentBucket
        /\ storeBuckets[currentBucket] # <<>>

\* C24: FileMenu offers the upload choice only when the listing succeeded
\* with at least one object; when the listing fails or the bucket is empty
\* FileMenu returns "back" without prompting, main resets currentBucket and
\* shows BucketMenu again, and no upload is started for an empty bucket
\* through the menus.
C24_NoUploadIntoEmptyBucket ==
    /\ []C24_PromptNeedsFiles
    /\ [][C24_NoFilesBack /\ C24_BackToBucketMenu /\ C24_UploadNeedsObject]_vars

\* The empty bucket b1 was listed; FileMenu returned without a prompt and
\* the buckets are requested again.
C24_Witness ==
    /\ pc = "awaitBuckets"
    /\ storeBuckets["b1"] = <<>>
    /\ Len(calls) = 3
    /\ calls[2].op = "listObjectsV2"
    /\ calls[2].Bucket = "b1"
    /\ calls[2].result = "ok"
    /\ calls[3].op = "listBuckets"
    /\ menuResult = FileBack
    /\ currentBucket = NoBucket
====
